---- MODULE Spec2Model ----
(***************************************************************************)
(* Live-chat subsystem of the UMT admissions chatbot: the livechat         *)
(* controller (Conversation Service and Admin Roster Aggregator), the      *)
(* socket.io relay, and the user and admin chat windows that drive them.   *)
(***************************************************************************)
EXTENDS Integers, Sequences, FiniteSets, TLC

VARIABLES
    store,      \* the LiveChat collection, in insertion order
    clock,      \* the server's Date.now(), in ticks
    last,       \* the request most recently handled by the controller, and its response
    online,     \* per socket: whether the relay holds a connection for it
    rooms,      \* per socket: the rooms the relay's adapter has it in
    rlast,      \* the socket event most recently handled by the relay, and what it emitted
    dropped,    \* the user messages the relay handled without delivering them to anyone
    up,         \* per socket: events the client has emitted and the relay has not handled yet
    down,       \* per socket: events the relay has emitted and the client has not handled yet
    http,       \* requests and responses in flight between the chat windows and the controller
    cl          \* per client: the state of its chat window

svars == <<store, clock, last>>
rvars == <<online, rooms, rlast, dropped>>
cvars == <<up, down, http, cl>>
vars == <<store, clock, last, online, rooms, rlast, dropped, up, down, http, cl>>

(***************************************************************************)
(* Identities and JavaScript values                                        *)
(***************************************************************************)
ADMIN_ID == "6883df2c8a712fda91389b6a"
Users == {"u1", "u2"}
Identities == Users \cup {ADMIN_ID}

\* A missing body field (JavaScript undefined) and the empty string, for id fields.
NoValue == "<undefined>"
EmptyId == ""
IdFalsy(v) == v \in {NoValue, EmptyId}

\* body.message: undefined, or a string held as its sequence of characters.
Undefined == [t |-> "undefined", s |-> <<>>]
Str(s) == [t |-> "string", s |-> s]
Falsy(v) == v.t = "undefined" \/ v.s = <<>>

\* The characters String.prototype.trim strips: ECMAScript WhiteSpace and
\* LineTerminator.  A text is held as the sequence of its characters, each a
\* one-character string; the code points that cannot be written in a string
\* here are held by their escape, "\\u2003" for U+2003.
WhiteSpace ==
    {" ", "\t", "\n", "\r", "\f", "", " ", "﻿", " ",
     "\\u2000", "\\u2001", "\\u2002", "\\u2003", "\\u2004", "\\u2005", "\\u2006", "\\u2007",
     "\\u2008", "\\u2009", "\\u200A", "\\u2028", "\\u2029", "\\u202F", "\\u205F", "\\u3000"}

\* String.prototype.trim on a sequence of characters.
RECURSIVE TrimStart(_)
TrimStart(s) == IF s # <<>> /\ Head(s) \in WhiteSpace THEN TrimStart(Tail(s)) ELSE s
RECURSIVE TrimEnd(_)
TrimEnd(s) ==
    IF s # <<>> /\ s[Len(s)] \in WhiteSpace THEN TrimEnd(SubSeq(s, 1, Len(s) - 1)) ELSE s
Trim(s) == TrimEnd(TrimStart(s))

(***************************************************************************)
(* Bounds and input sets                                                   *)
(***************************************************************************)
MaxStore == 2
MaxClock == 1
MaxQueue == 2
MaxEffects == 2
MaxSends == 1
MaxPosts == 1

Texts == {<<>>, <<" ">>, <<"h">>}
MessageArgs == {Undefined} \cup {Str(s) : s \in Texts}
ReceiverArgs == {NoValue, EmptyId} \cup Identities
UserIdArgs == {NoValue} \cup Identities

(***************************************************************************)
(* Message Store                                                           *)
(***************************************************************************)
\* LiveChat.create: the document gets the next _id and createdAt = now.
NewDoc(st, now, sender, receiver, message) ==
    [_id |-> Len(st) + 1, sender |-> sender, receiver |-> receiver,
     message |-> message, createdAt |-> now]

Create(st, doc) == Append(st, doc)

\* Ascending orders of a set of documents by createdAt; documents with equal
\* createdAt may come in any order.
SortedByCreatedAt(docs) ==
    {q \in [1..Cardinality(docs) -> docs] :
        /\ \A i, j \in 1..Cardinality(docs) : i # j => q[i] # q[j]
        /\ \A i, j \in 1..Cardinality(docs) : i < j => q[i].createdAt <= q[j].createdAt}

Range(q) == {q[i] : i \in 1..Len(q)}

\* LiveChat.find({$or: [{sender: a, receiver: b}, {sender: b, receiver: a}]})
FindConversation(st, a, b) ==
    {d \in Range(st) : \/ (d.sender = a /\ d.receiver = b)
                       \/ (d.sender = b /\ d.receiver = a)}

(***************************************************************************)
(* Conversation Service                                                    *)
(***************************************************************************)
NoDoc == [_id |-> 0, sender |-> NoValue, receiver |-> NoValue,
          message |-> <<>>, createdAt |-> 0]

\* The record of a request made of the controller directly: what was asked,
\* what was answered, and the store and the User collection at that time.
NoLast == [op |-> "none", caller |-> NoValue, message |-> Undefined, receiver |-> NoValue,
           userId |-> NoValue, status |-> 0, data |-> NoDoc, list |-> <<>>, ids |-> {},
           rows |-> <<>>, before |-> <<>>, users |-> {}]

\* The decision of sendMessage before the store is touched:
\* the response status it settles on and the receiver it resolves.
\* (variant: the admin branch does not check the receiver)
sendMessage_bad_noReceiverCheck(sender, message, receiver) ==
    IF Falsy(message) THEN [status |-> 400, receiver |-> NoValue]
    ELSE IF sender = ADMIN_ID THEN [status |-> 201, receiver |-> receiver]
    ELSE [status |-> 201, receiver |-> ADMIN_ID]

\* (variant: body.receiver is used whenever it is given)
sendMessage_bad_trustsBody(sender, message, receiver) ==
    IF Falsy(message) THEN [status |-> 400, receiver |-> NoValue]
    ELSE IF IdFalsy(receiver) THEN
        IF sender = ADMIN_ID THEN [status |-> 400, receiver |-> NoValue]
        ELSE [status |-> 201, receiver |-> ADMIN_ID]
    ELSE [status |-> 201, receiver |-> receiver]

sendMessage(sender, message, receiver) ==
    IF Falsy(message) THEN [status |-> 400, receiver |-> NoValue]
    ELSE IF sender = ADMIN_ID THEN
        IF IdFalsy(receiver) THEN [status |-> 400, receiver |-> NoValue]
        ELSE [status |-> 201, receiver |-> receiver]
    ELSE [status |-> 201, receiver |-> ADMIN_ID]

\* The earlier variant of the controller in the same file.
sendMessageV1(sender, message, receiver) ==
    IF Falsy(message) THEN [status |-> 400, receiver |-> NoValue]
    ELSE LET r == IF sender = ADMIN_ID THEN receiver ELSE ADMIN_ID
         IN  IF IdFalsy(r) THEN [status |-> 400, receiver |-> NoValue]
             ELSE [status |-> 201, receiver |-> r]

SendVariants(sender, message, receiver) ==
    {sendMessage(sender, message, receiver), sendMessageV1(sender, message, receiver)}

\* What a sendMessage call can do to the store and answer: a 400 without
\* touching the store, a 201 with the created document, or a 500 when
\* LiveChat.create rejects.
\* (variant: a send whose content is already stored returns the stored record)
SendOutcomes_bad_dedup(st, now, sender, message, receiver) ==
    UNION {
        IF r.status # 201 THEN {[status |-> r.status, data |-> NoDoc, store |-> st]}
        ELSE LET doc == NewDoc(st, now, sender, r.receiver, message.s)
                 dup == {d \in Range(st) : d.sender = sender /\ d.receiver = r.receiver
                                           /\ d.message = message.s}
             IN  IF dup # {}
                 THEN {[status |-> 201, data |-> CHOOSE d \in dup : TRUE, store |-> st]}
                 ELSE {[status |-> 201, data |-> doc, store |-> Create(st, doc)],
                       [status |-> 500, data |-> NoDoc, store |-> st]}
        : r \in SendVariants(sender, message, receiver)}

\* (variant: the document is created before the request is validated)
SendOutcomes_bad_writesOnRefusal(st, now, sender, message, receiver) ==
    UNION {
        LET doc == NewDoc(st, now, sender, r.receiver, message.s)
        IN  IF r.status # 201
            THEN {[status |-> r.status, data |-> NoDoc, store |-> Create(st, doc)]}
            ELSE {[status |-> 201, data |-> doc, store |-> Create(st, doc)],
                  [status |-> 500, data |-> NoDoc, store |-> st]}
        : r \in SendVariants(sender, message, receiver)}

SendOutcomes(st, now, sender, message, receiver) ==
    UNION {
        IF r.status # 201 THEN {[status |-> r.status, data |-> NoDoc, store |-> st]}
        ELSE LET doc == NewDoc(st, now, sender, r.receiver, message.s)
             IN  {[status |-> 201, data |-> doc, store |-> Create(st, doc)],
                  [status |-> 500, data |-> NoDoc, store |-> st]}
        : r \in SendVariants(sender, message, receiver)}

\* getMessages: the conversation the caller may read, ascending by createdAt.
\* (variant: query.userId is ignored, every caller gets its own conversation)
getMessages_bad_ignoresUserId(st, caller, userId) ==
    SortedByCreatedAt(FindConversation(st, caller, ADMIN_ID))

\* (variant: query.userId selects the conversation for any caller)
getMessages_bad_anyCallerSelects(st, caller, userId) ==
    IF ~IdFalsy(userId)
    THEN SortedByCreatedAt(FindConversation(st, ADMIN_ID, userId))
    ELSE SortedByCreatedAt(FindConversation(st, caller, ADMIN_ID))

getMessages(st, caller, userId) ==
    IF caller = ADMIN_ID /\ ~IdFalsy(userId)
    THEN SortedByCreatedAt(FindConversation(st, ADMIN_ID, userId))
    ELSE SortedByCreatedAt(FindConversation(st, caller, ADMIN_ID))

(***************************************************************************)
(* Admin Roster Aggregator                                                 *)
(***************************************************************************)
\* The User collections a call may find: the identities that have a User
\* document.  A user's account can be removed after it has written; admin is
\* filtered out before the find, so its document plays no part.
UserCollections == {S \cup {ADMIN_ID} : S \in SUBSET Users}

\* User.find({_id: {$in: ids}}).select("name email"): the User documents
\* whose _id is among ids, each named here by its _id.
FindUsers(users, ids) == {u \in users : u \in ids}

\* getChatUsers: 403 unless admin; LiveChat.distinct("sender", {receiver: admin}),
\* admin itself filtered out, and the User documents of what is left.
\* (variant: the distinct is taken on the receiver of the admin's messages)
getChatUsers_bad_distinctReceiver(st, users, caller) ==
    IF caller # ADMIN_ID THEN [status |-> 403, ids |-> {}]
    ELSE LET userIds == {d.receiver : d \in {x \in Range(st) : x.sender = ADMIN_ID}}
             filtered == userIds \ {ADMIN_ID}
         IN  [status |-> 200, ids |-> FindUsers(users, filtered)]

\* (variant: the caller is not checked)
getChatUsers_bad_noGate(st, users, caller) ==
    LET userIds == {d.sender : d \in {x \in Range(st) : x.receiver = ADMIN_ID}}
        filtered == userIds \ {ADMIN_ID}
    IN  [status |-> 200, ids |-> FindUsers(users, filtered)]

getChatUsers(st, users, caller) ==
    IF caller # ADMIN_ID THEN [status |-> 403, ids |-> {}]
    ELSE LET userIds == {d.sender : d \in {x \in Range(st) : x.receiver = ADMIN_ID}}
             filtered == userIds \ {ADMIN_ID}
         IN  [status |-> 200, ids |-> FindUsers(users, filtered)]

\* The $project stage: the other party of an admin-touching message.
Counterpart(d) == IF d.sender = ADMIN_ID THEN d.receiver ELSE d.sender

\* The $match, $project and $group stages: per counterpart, the $last message
\* of its group.  No $sort precedes the $group, so the order in which the
\* documents reach it is the plan's: $last may be any document of the group.
ChatGroups(st) ==
    LET idx == {i \in 1..Len(st) : st[i].sender = ADMIN_ID \/ st[i].receiver = ADMIN_ID}
        parties == {Counterpart(st[i]) : i \in idx}
        lasts == {f \in [parties -> idx] : \A p \in parties : Counterpart(st[f[p]]) = p}
    IN  {{[_id |-> p, lastMessage |-> st[f[p]].message, lastUpdated |-> st[f[p]].createdAt]
          : p \in parties} : f \in lasts}

\* The $sort stage: descending by lastUpdated, ties in any order.
SortedByLastUpdatedDesc(rows) ==
    {q \in [1..Cardinality(rows) -> rows] :
        /\ \A i, j \in 1..Cardinality(rows) : i # j => q[i] # q[j]
        /\ \A i, j \in 1..Cardinality(rows) : i < j => q[i].lastUpdated >= q[j].lastUpdated}

getAllUserChats(st, caller) ==
    IF caller # ADMIN_ID THEN {[status |-> 403, rows |-> <<>>]}
    ELSE {[status |-> 200, rows |-> q] :
              q \in UNION {SortedByLastUpdatedDesc(g) : g \in ChatGroups(st)}}

\* The responses of GET /conversation: 200 with the list, or 500 from the
\* catch when the find rejects.
GetMessagesOutcomes(st, caller, userId) ==
    {[status |-> 200, list |-> q] : q \in getMessages(st, caller, userId)}
        \cup {[status |-> 500, list |-> <<>>]}

\* The responses of GET /users: what getChatUsers answers, or 500 when the
\* distinct or the find rejects (asyncHandler hands the rejection to the
\* error handler).
GetChatUsersOutcomes(st, users, caller) ==
    {getChatUsers(st, users, caller)}
        \cup (IF caller = ADMIN_ID THEN {[status |-> 500, ids |-> {}]} ELSE {})

\* The responses of GET /admin/all: what getAllUserChats answers, or 500 when
\* the aggregate rejects.
GetAllUserChatsOutcomes(st, caller) ==
    getAllUserChats(st, caller)
        \cup (IF caller = ADMIN_ID THEN {[status |-> 500, rows |-> <<>>]} ELSE {})

(***************************************************************************)
(* Realtime Relay                                                          *)
(***************************************************************************)
Conns == {"s1", "s2", "s3"}

\* A socket event: its name, its room or identity argument, its message payload.
NoMsg == [_id |-> 0, sender |-> NoValue, receiver |-> NoValue,
          message |-> <<>>, createdAt |-> 0, ref |-> 0]
Event(ev, id, msg) == [ev |-> ev, id |-> id, msg |-> msg]

\* The id socket.io gives a socket's connection; the connection is in the
\* room of that name from the start.
SockId(c) == CASE c = "s1" -> "id1" [] c = "s2" -> "id2" [] c = "s3" -> "id3"

\* The rooms a socket has joined besides its own.
Joined(rm, c) == rm[c] \ {SockId(c)}

\* The connected sockets the adapter has in a room.
Members(on, rm, room) == {c \in Conns : on[c] /\ room \in rm[c]}

\* socket.to(room).emit(ev, msg): one delivery to every socket of the room
\* but the emitting one.
\* (variant: the emit goes to every connected socket, whatever its rooms)
EmitTo_bad_broadcast(on, rm, c, room, ev, msg) ==
    LET RECURSIVE List(_)
        List(S) == IF S = {} THEN <<>>
                   ELSE LET x == CHOOSE y \in S : TRUE
                        IN  <<[to |-> x, ev |-> ev, msg |-> msg]>> \o List(S \ {x})
    IN  List({d \in Conns : on[d]} \ {c})

EmitTo(on, rm, c, room, ev, msg) ==
    LET RECURSIVE List(_)
        List(S) == IF S = {} THEN <<>>
                   ELSE LET x == CHOOSE y \in S : TRUE
                        IN  <<[to |-> x, ev |-> ev, msg |-> msg]>> \o List(S \ {x})
    IN  List(Members(on, rm, room) \ {c})

\* The "new message" handler: for each of sender and receiver, emit to that
\* room unless it is the sender's.
\* (variant: the sender's room is not skipped)
NewMessageTargets_bad_echo(msg) == <<msg.sender, msg.receiver>>

NewMessageTargets(msg) ==
    SelectSeq(<<msg.sender, msg.receiver>>, LAMBDA userId : userId # msg.sender)

RECURSIVE EmitAll(_, _, _, _, _, _)
EmitAll(on, rm, c, targets, ev, msg) ==
    IF targets = <<>> THEN <<>>
    ELSE EmitTo(on, rm, c, Head(targets), ev, msg)
         \o EmitAll(on, rm, c, Tail(targets), ev, msg)

\* One handler run of io.on("connection") for socket c: the rooms afterwards,
\* the rooms emitted to, and the deliveries made, in order.
\* (variant: the acknowledgement of setup goes to every connected socket)
RelayStep_bad_ackAll(on, rm, c, e) ==
    CASE e.ev = "setup" ->
            [rooms |-> [rm EXCEPT ![c] = @ \cup {e.id}], targets |-> <<>>,
             emits |-> <<[to |-> c, ev |-> "connected", msg |-> NoMsg]>>
                       \o EmitTo_bad_broadcast(on, rm, c, e.id, "connected", NoMsg)]
      [] e.ev = "join chat" ->
            [rooms |-> [rm EXCEPT ![c] = @ \cup {e.id}], targets |-> <<>>, emits |-> <<>>]
      [] e.ev \in {"typing", "stop typing"} ->
            [rooms |-> rm, targets |-> <<e.id>>,
             emits |-> EmitTo(on, rm, c, e.id, e.ev, NoMsg)]
      [] e.ev = "new message" ->
            [rooms |-> rm, targets |-> NewMessageTargets(e.msg),
             emits |-> EmitAll(on, rm, c, NewMessageTargets(e.msg), "message received", e.msg)]

RelayStep(on, rm, c, e) ==
    CASE e.ev = "setup" ->
            [rooms |-> [rm EXCEPT ![c] = @ \cup {e.id}], targets |-> <<>>,
             emits |-> <<[to |-> c, ev |-> "connected", msg |-> NoMsg]>>]
      [] e.ev = "join chat" ->
            [rooms |-> [rm EXCEPT ![c] = @ \cup {e.id}], targets |-> <<>>, emits |-> <<>>]
      [] e.ev \in {"typing", "stop typing"} ->
            [rooms |-> rm, targets |-> <<e.id>>,
             emits |-> EmitTo(on, rm, c, e.id, e.ev, NoMsg)]
      [] e.ev = "new message" ->
            [rooms |-> rm, targets |-> NewMessageTargets(e.msg),
             emits |-> EmitAll(on, rm, c, NewMessageTargets(e.msg), "message received", e.msg)]

\* The record of the user messages for which the relay's handler made no
\* delivery (the receiver's room had no socket but the emitter's, or the
\* receiver was the sender): the stored Messages (by ref) nobody got live.
Dropped(dr, on, rm, c, e) ==
    IF /\ e.ev = "new message" /\ e.msg.sender # ADMIN_ID
       /\ EmitAll(on, rm, c, NewMessageTargets(e.msg), "message received", e.msg) = <<>>
    THEN dr \cup {e.msg.ref}
    ELSE dr

NoRLast == [conn |-> NoValue, e |-> Event("none", NoValue, NoMsg),
            targets |-> <<>>, emits |-> <<>>]

InitRelay ==
    /\ online = [c \in Conns |-> FALSE]
    /\ rooms = [c \in Conns |-> {}]
    /\ rlast = NoRLast
    /\ dropped = {}

\* A client's socket connects: the connection is in the room of its own id,
\* and io.on("connection") registers the handlers.
Connect(c) ==
    /\ ~online[c]
    /\ online' = [online EXCEPT ![c] = TRUE]
    /\ rooms' = [rooms EXCEPT ![c] = {SockId(c)}]
    /\ rlast' = [NoRLast EXCEPT !.conn = c, !.e = Event("connection", NoValue, NoMsg)]
    /\ UNCHANGED <<dropped, svars, cvars>>

\* The socket disconnects: the adapter removes it from all its rooms.
\* (variant: the socket stays in its rooms)
Disconnect_bad_keepsRooms(c) ==
    /\ online[c]
    /\ online' = [online EXCEPT ![c] = FALSE]
    /\ rooms' = rooms
    /\ rlast' = [NoRLast EXCEPT !.conn = c, !.e = Event("disconnect", NoValue, NoMsg)]
    /\ UNCHANGED <<dropped, svars, cvars>>

Disconnect(c) ==
    /\ online[c]
    /\ online' = [online EXCEPT ![c] = FALSE]
    /\ rooms' = [rooms EXCEPT ![c] = {}]
    /\ rlast' = [NoRLast EXCEPT !.conn = c, !.e = Event("disconnect", NoValue, NoMsg)]
    /\ UNCHANGED <<dropped, svars, cvars>>

\* An event emitted without its payload: the handler's argument is undefined.
Missing == "<missing>"

\* Whether the handler of event e throws: setup reads userData._id and
\* "new message" reads message.sender, a TypeError on undefined.
Throws(e) == e.ev \in {"setup", "new message"} /\ e.id = Missing

\* The relay handles event e sent on socket c.  Nothing catches what a
\* handler throws: the server process ends, and with it every connection and
\* every room.
RelayOn(c, e) ==
    /\ online[c]
    /\ IF Throws(e)
       THEN /\ online' = [d \in Conns |-> FALSE]
            /\ rooms' = [d \in Conns |-> {}]
            /\ rlast' = [conn |-> c, e |-> e, targets |-> <<>>, emits |-> <<>>]
            /\ dropped' = dropped
       ELSE /\ LET r == RelayStep(online, rooms, c, e)
               IN  /\ rooms' = r.rooms
                   /\ rlast' = [conn |-> c, e |-> e, targets |-> r.targets, emits |-> r.emits]
            /\ dropped' = Dropped(dropped, online, rooms, c, e)
            /\ online' = online
    /\ UNCHANGED <<svars, cvars>>

(***************************************************************************)
(* Chat windows                                                            *)
(***************************************************************************)
\* The identity each client is logged in as.
ClientOf(c) == CASE c = "s1" -> "u1" [] c = "s2" -> "u2" [] c = "s3" -> ADMIN_ID

\* The chat window a client shows is the one of the route it has opened,
\* /chat/livechat (user window) or /chat/adminchat (admin window); neither
\* route looks at the identity of the login.
Windows == {"user", "admin"}
IsAdminWindow(c) == cl[c].win = "admin"

\* A stored document as the client gets it in a response body; ref names the
\* stored Message an entry of a displayed list stands for.
ToClient(doc) ==
    [_id |-> doc._id, sender |-> doc.sender, receiver |-> doc.receiver,
     message |-> doc.message, createdAt |-> doc.createdAt, ref |-> doc._id]

ToClientList(q) == [i \in 1..Len(q) |-> ToClient(q[i])]

\* lstn: the "message received" listeners registered on the client's socket,
\* each with the user prop its effect run closed over.  sel counts the effect
\* runs of the mounted instance after the first; live, fetched, sent and
\* posted record what the window has been through: the Messages it appended
\* from live events, the outcome of the last fetch response it handled, the
\* Messages it appended from its own sends, and the sends that succeeded.
NoWindow == [mounted |-> FALSE, win |-> "none", user |-> NoValue, lstn |-> <<>>, messages |-> <<>>,
             sel |-> 0, live |-> {}, fetched |-> "none",
             message |-> <<>>, inst |-> 0, nreq |-> 0, nsend |-> 0, sent |-> {}, posted |-> {}]

NoReq == [c |-> NoValue, win |-> "none", rid |-> 0, inst |-> 0, sel |-> 0, kind |-> "none", phase |-> "req",
          message |-> <<>>, receiver |-> NoValue, userId |-> NoValue,
          status |-> 0, data |-> NoMsg, list |-> <<>>]

InitClients ==
    /\ up = [c \in Conns |-> <<>>]
    /\ down = [c \in Conns |-> <<>>]
    /\ http = {}
    /\ cl = [c \in Conns |-> NoWindow]

\* The sends the windows have started and the effect runs (mounts and
\* selections) they have made so far; each effect run makes one history
\* request and each send one POST.
Sends == cl["s1"].nsend + cl["s2"].nsend + cl["s3"].nsend
Effects == cl["s1"].nreq + cl["s2"].nreq + cl["s3"].nreq - Sends

\* Whether the component instance that issued request r is still the mounted one.
Alive(r) == cl[r.c].mounted /\ cl[r.c].inst = r.inst

\* The payload the window emits as "new message" after a successful send:
\* the user window emits the response body, the admin window a fresh object
\* of sender, receiver and the compose text.
EmitPayload(r) ==
    IF r.win = "admin"
    THEN [NoMsg EXCEPT !.sender = ADMIN_ID, !.receiver = r.receiver,
                       !.message = r.message, !.ref = r.data.ref]
    ELSE r.data

\* The admin identity the user chat window is built with.
ClientADMIN_ID == "908123097123"

\* The payloads a window's handleSend can emit: the user chat window exists in
\* two forms, one emitting the response body and one emitting a fresh object
\* of user._id, the window's own ADMIN_ID and the compose text.
EmitPayloads(r) ==
    IF r.win = "admin" THEN {EmitPayload(r)}
    ELSE {EmitPayload(r),
          [NoMsg EXCEPT !.sender = ClientOf(r.c), !.receiver = ClientADMIN_ID,
                        !.message = r.message, !.ref = r.data.ref]}

\* The admin window's "message received" listener keeps a message only if it
\* is between ADMIN_ID and the user the listener was registered for; the user
\* window's listener keeps every message.
Keeps(c, user, msg) ==
    IF IsAdminWindow(c)
    THEN \/ (msg.sender = user /\ msg.receiver = ADMIN_ID)
         \/ (msg.sender = ADMIN_ID /\ msg.receiver = user)
    ELSE TRUE

\* Window w mounts with prop user u (the login for the user window, the
\* selected user for the admin window): the effect emits setup, registers the
\* listener and starts fetchMessages.
Mount(c, w, u) ==
    /\ ~cl[c].mounted
    /\ Effects < MaxEffects
    /\ Len(up[c]) < MaxQueue
    /\ w \in Windows
    /\ IF w = "admin" THEN u \in Users ELSE u = ClientOf(c)
    /\ cl' = [cl EXCEPT ![c] = [@ EXCEPT !.mounted = TRUE, !.win = w, !.user = u,
                                         !.lstn = Append(@, u),
                                         !.live = {}, !.fetched = "none",
                                         !.messages = <<>>, !.message = <<>>,
                                         !.inst = @ + 1, !.nreq = @ + 1, !.sent = {}]]
    /\ up' = [up EXCEPT ![c] =
                 Append(@, Event("setup", IF w = "admin" THEN ADMIN_ID ELSE u, NoMsg))]
    /\ http' = http \cup
                 {[NoReq EXCEPT !.c = c, !.win = w, !.rid = cl[c].nreq + 1,
                                !.inst = cl[c].inst + 1, !.sel = cl[c].sel,
                                !.kind = "GET",
                                !.userId = IF w = "admin" THEN u ELSE NoValue]}
    /\ UNCHANGED <<svars, rvars, down>>

\* The window unmounts: the effect's cleanup removes the listeners.
Unmount(c) ==
    /\ cl[c].mounted
    /\ cl' = [cl EXCEPT ![c] = [@ EXCEPT !.mounted = FALSE, !.win = "none", !.user = NoValue,
                                         !.lstn = <<>>, !.messages = <<>>,
                                         !.live = {}, !.fetched = "none",
                                         !.message = <<>>, !.sent = {}]]
    /\ UNCHANGED <<svars, rvars, up, down, http>>

\* The admin selects another user in the dashboard: the mounted window gets a
\* new user prop, so its effect is cleaned up (the listeners are removed) and
\* runs again: setup, a listener for the new user and a fetch of that user's
\* conversation.  The displayed list and the compose input are kept.
\* (variant: the cleanup does not remove the earlier listener)
Select_bad_keepsListener(c, u) ==
    /\ cl[c].mounted
    /\ IsAdminWindow(c)
    /\ u \in Users /\ u # cl[c].user
    /\ Effects < MaxEffects
    /\ Len(up[c]) < MaxQueue
    /\ cl' = [cl EXCEPT ![c] = [@ EXCEPT !.user = u, !.lstn = Append(@, u),
                                         !.sel = @ + 1, !.nreq = @ + 1]]
    /\ up' = [up EXCEPT ![c] = Append(@, Event("setup", ADMIN_ID, NoMsg))]
    /\ http' = http \cup
                 {[NoReq EXCEPT !.c = c, !.win = "admin", !.rid = cl[c].nreq + 1,
                                !.inst = cl[c].inst,
                                !.sel = cl[c].sel + 1, !.kind = "GET", !.userId = u]}
    /\ UNCHANGED <<svars, rvars, down>>

Select(c, u) ==
    /\ cl[c].mounted
    /\ IsAdminWindow(c)
    /\ u \in Users /\ u # cl[c].user
    /\ Effects < MaxEffects
    /\ Len(up[c]) < MaxQueue
    /\ cl' = [cl EXCEPT ![c] = [@ EXCEPT !.user = u, !.lstn = <<u>>,
                                         !.sel = @ + 1, !.nreq = @ + 1]]
    /\ up' = [up EXCEPT ![c] = Append(@, Event("setup", ADMIN_ID, NoMsg))]
    /\ http' = http \cup
                 {[NoReq EXCEPT !.c = c, !.win = "admin", !.rid = cl[c].nreq + 1,
                                !.inst = cl[c].inst,
                                !.sel = cl[c].sel + 1, !.kind = "GET", !.userId = u]}
    /\ UNCHANGED <<svars, rvars, down>>

\* The user edits the compose input.
TypeText(c, t) ==
    /\ cl[c].mounted
    /\ cl[c].message # t
    /\ cl' = [cl EXCEPT ![c].message = t]
    /\ UNCHANGED <<svars, rvars, up, down, http>>

\* handleSend up to its await: nothing for a blank compose text, else the POST.
HandleSend(c) ==
    /\ cl[c].mounted
    /\ Trim(cl[c].message) # <<>>
    /\ Sends < MaxSends
    /\ cl' = [cl EXCEPT ![c] = [@ EXCEPT !.nreq = @ + 1, !.nsend = @ + 1]]
    /\ http' = http \cup
                 {[NoReq EXCEPT !.c = c, !.win = cl[c].win, !.rid = cl[c].nreq + 1,
                                !.inst = cl[c].inst,
                                !.kind = "POST", !.message = cl[c].message,
                                !.receiver = IF IsAdminWindow(c) THEN cl[c].user ELSE NoValue]}
    /\ UNCHANGED <<svars, rvars, up, down>>

\* The controller handles a window's POST /send; the answer travels in the
\* request's record.
ServePost(r) ==
    /\ r \in http /\ r.kind = "POST" /\ r.phase = "req"
    /\ \E o \in SendOutcomes(store, clock, ClientOf(r.c), Str(r.message), r.receiver) :
        /\ Len(o.store) <= MaxStore
        /\ store' = o.store
        /\ http' = (http \ {r}) \cup
                     {[r EXCEPT !.phase = "res", !.status = o.status,
                                !.data = IF o.status = 201 THEN ToClient(o.data) ELSE NoMsg]}
    /\ UNCHANGED <<clock, last, rvars, up, down, cl>>

\* The controller handles a window's GET /conversation: 200 with the list,
\* or 500 when the find rejects.
ServeGet(r) ==
    /\ r \in http /\ r.kind = "GET" /\ r.phase = "req"
    /\ \E o \in GetMessagesOutcomes(store, ClientOf(r.c), r.userId) :
        /\ http' = (http \ {r}) \cup
                     {[r EXCEPT !.phase = "res", !.status = o.status,
                                !.list = ToClientList(o.list)]}
    /\ UNCHANGED <<svars, rvars, up, down, cl>>

\* (variant: the window clears the compose input whatever the response)
RecvPost_bad_clearsOnFailure(r) ==
    /\ r \in http /\ r.kind = "POST" /\ r.phase = "res"
    /\ http' = http \ {r}
    /\ IF r.status = 201
       THEN /\ Len(up[r.c]) < MaxQueue
            /\ \E p \in EmitPayloads(r) :
                   up' = [up EXCEPT ![r.c] = Append(@, Event("new message", NoValue, p))]
            /\ cl' = [cl EXCEPT ![r.c] =
                         IF Alive(r)
                         THEN [@ EXCEPT !.messages = Append(@, r.data), !.message = <<>>,
                                        !.sent = @ \cup {r.data.ref},
                                        !.posted = @ \cup {r.data.ref}]
                         ELSE [@ EXCEPT !.posted = @ \cup {r.data.ref}]]
       ELSE /\ up' = up
            /\ cl' = [cl EXCEPT ![r.c].message = <<>>]
    /\ UNCHANGED <<svars, rvars, down>>

RecvPost(r) ==
    /\ r \in http /\ r.kind = "POST" /\ r.phase = "res"
    /\ http' = http \ {r}
    /\ IF r.status = 201
       THEN /\ Len(up[r.c]) < MaxQueue
            /\ \E p \in EmitPayloads(r) :
                   up' = [up EXCEPT ![r.c] = Append(@, Event("new message", NoValue, p))]
            /\ cl' = [cl EXCEPT ![r.c] =
                         IF Alive(r)
                         THEN [@ EXCEPT !.messages = Append(@, r.data), !.message = <<>>,
                                        !.sent = @ \cup {r.data.ref},
                                        !.posted = @ \cup {r.data.ref}]
                         ELSE [@ EXCEPT !.posted = @ \cup {r.data.ref}]]
       ELSE UNCHANGED <<up, cl>>
    /\ UNCHANGED <<svars, rvars, down>>

\* fetchMessages after its await: on success the window replaces its list by
\* the response; on failure it only logs.
RecvGet(r) ==
    /\ r \in http /\ r.kind = "GET" /\ r.phase = "res"
    /\ http' = http \ {r}
    /\ cl' = IF ~Alive(r) THEN cl
             ELSE IF r.status = 200
             THEN [cl EXCEPT ![r.c] = [@ EXCEPT !.messages = r.list, !.fetched = "ok"]]
             ELSE [cl EXCEPT ![r.c].fetched = "failed"]
    /\ UNCHANGED <<svars, rvars, up, down>>

\* The relay handles the next event a client's socket has sent.  A handler
\* that throws ends the server process as in RelayOn: every connection and
\* every room is gone and nothing is delivered.
RelayDeliver(c) ==
    /\ online[c]
    /\ up[c] # <<>>
    /\ IF Throws(Head(up[c]))
       THEN /\ online' = [d \in Conns |-> FALSE]
            /\ rooms' = [d \in Conns |-> {}]
            /\ rlast' = [conn |-> c, e |-> Head(up[c]), targets |-> <<>>, emits |-> <<>>]
            /\ down' = down
            /\ dropped' = dropped
       ELSE /\ LET r == RelayStep(online, rooms, c, Head(up[c]))
                   got(d) == SelectSeq(r.emits, LAMBDA x : x.to = d)
                   evs(d) == [i \in 1..Len(got(d)) |->
                                 Event(got(d)[i].ev, NoValue, got(d)[i].msg)]
               IN  /\ \A d \in Conns : Len(down[d]) + Len(got(d)) <= MaxQueue
                   /\ rooms' = r.rooms
                   /\ rlast' = [conn |-> c, e |-> Head(up[c]),
                                targets |-> r.targets, emits |-> r.emits]
                   /\ down' = [d \in Conns |-> down[d] \o evs(d)]
            /\ dropped' = Dropped(dropped, online, rooms, c, Head(up[c]))
            /\ online' = online
    /\ up' = [up EXCEPT ![c] = Tail(@)]
    /\ UNCHANGED <<svars, http, cl>>

\* The client's socket dispatches the next event it received to the window's
\* listeners, if any are registered.
SockRecv(c) ==
    /\ down[c] # <<>>
    /\ down' = [down EXCEPT ![c] = Tail(@)]
    /\ LET e == Head(down[c])
           kept == SelectSeq(cl[c].lstn, LAMBDA user : Keeps(c, user, e.msg))
           copies == [k \in 1..Len(kept) |-> e.msg]
       IN  cl' = IF e.ev = "message received" /\ kept # <<>>
                 THEN [cl EXCEPT ![c] = [@ EXCEPT !.messages = @ \o copies,
                                                  !.live = @ \cup {e.msg.ref}]]
                 ELSE cl
    /\ UNCHANGED <<svars, rvars, up, http>>

\* The Messages of a client's login in the store.
Posts(c) == Cardinality({i \in 1..Len(store) : store[i].sender = ClientOf(c)})

\* A client without a chat window emits, for one of its stored Messages,
\* what the handleSend of window w emits after the 201 of its POST, once for
\* each Message: the user window the response body or, in its other form, a
\* fresh object with the window's own ADMIN_ID as receiver; the admin window
\* a fresh object of ADMIN_ID, the selected user and the text.  The POST of
\* the user window carries no receiver, so no Message of the admin login
\* comes from it; the receiver the admin window posts is the stored one for
\* the admin login and is not looked at for any other.
EmitOwn(c, w) ==
    /\ Len(up[c]) < MaxQueue
    /\ w \in Windows
    /\ w = "user" => ClientOf(c) # ADMIN_ID
    /\ \E i \in 1..Len(store), u \in Users :
           /\ store[i].sender = ClientOf(c)
           /\ i \notin cl[c].posted
           /\ ClientOf(c) = ADMIN_ID => u = store[i].receiver
           /\ \E p \in EmitPayloads([NoReq EXCEPT !.c = c, !.win = w, !.kind = "POST",
                                                  !.phase = "res", !.status = 201,
                                                  !.message = store[i].message,
                                                  !.receiver = u,
                                                  !.data = ToClient(store[i])]) :
                  up' = [up EXCEPT ![c] = Append(@, Event("new message", NoValue, p))]
           /\ cl' = [cl EXCEPT ![c].posted = @ \cup {i}]
    /\ UNCHANGED <<svars, rvars, down, http>>

(***************************************************************************)
(* The controller's handlers as steps                                      *)
(***************************************************************************)
InitService ==
    /\ store = <<>>
    /\ clock = 0
    /\ last = NoLast

\* The server clock advances.
Tick ==
    /\ clock < MaxClock
    /\ clock' = clock + 1
    /\ UNCHANGED <<store, last, rvars, cvars>>

\* POST /api/livechat/send by an authenticated caller.
ApiSendMessage(caller, message, receiver) ==
    \E o \in SendOutcomes(store, clock, caller, message, receiver) :
        /\ Len(o.store) <= MaxStore
        /\ store' = o.store
        /\ last' = [NoLast EXCEPT !.op = "sendMessage", !.caller = caller,
                                  !.message = message, !.receiver = receiver,
                                  !.status = o.status, !.data = o.data, !.before = store]
        /\ UNCHANGED <<clock, rvars, cvars>>

\* GET /api/livechat/conversation
ApiGetMessages(caller, userId) ==
    \E o \in GetMessagesOutcomes(store, caller, userId) :
        /\ last' = [NoLast EXCEPT !.op = "getMessages", !.caller = caller, !.userId = userId,
                                  !.status = o.status, !.list = o.list, !.before = store]
        /\ UNCHANGED <<store, clock, rvars, cvars>>

\* GET /api/livechat/users
ApiGetChatUsers(caller) ==
    \E users \in UserCollections : \E r \in GetChatUsersOutcomes(store, users, caller) :
        /\ last' = [NoLast EXCEPT !.op = "getChatUsers", !.caller = caller,
                                  !.status = r.status, !.ids = r.ids, !.users = users,
                                  !.before = store]
        /\ UNCHANGED <<store, clock, rvars, cvars>>

\* GET /api/livechat/admin/all
ApiGetAllUserChats(caller) ==
    \E r \in GetAllUserChatsOutcomes(store, caller) :
        /\ last' = [NoLast EXCEPT !.op = "getAllUserChats", !.caller = caller,
                                  !.status = r.status, !.rows = r.rows, !.before = store]
        /\ UNCHANGED <<store, clock, rvars, cvars>>

(***************************************************************************)
(* The controller alone, called with every request body                    *)
(***************************************************************************)
ServiceNext ==
    \/ \E caller \in Identities, message \in MessageArgs, receiver \in ReceiverArgs :
           ApiSendMessage(caller, message, receiver)
    \/ \E caller \in Identities, userId \in UserIdArgs : ApiGetMessages(caller, userId)
    \/ \E caller \in Identities : ApiGetChatUsers(caller)
    \/ \E caller \in Identities : ApiGetAllUserChats(caller)

Init == InitService /\ InitRelay /\ InitClients

SpecService == Init /\ [][ServiceNext]_vars

(***************************************************************************)
(* Claims about the Conversation Service                                   *)
(***************************************************************************)
IsSend == last.op = "sendMessage"
Appended == store = Append(last.before, last.data)
Untouched == store = last.before

\* C1: a send by a non-admin caller with a non-empty message is never refused
\* as invalid, and the Message it appends has receiver ADMIN_ID whatever
\* body.receiver was; so every stored Message of a non-admin sender is
\* addressed to ADMIN_ID.
C1_UserReceiverIsAdmin ==
    /\ (IsSend /\ last.caller # ADMIN_ID /\ ~Falsy(last.message)) =>
           /\ last.status \in {201, 500}
           /\ last.status = 201 =>
                  Appended /\ last.data.receiver = ADMIN_ID /\ last.data.sender = last.caller
    /\ \A i \in 1..Len(store) : store[i].sender # ADMIN_ID => store[i].receiver = ADMIN_ID

C1_Witness ==
    /\ IsSend /\ last.caller = "u1" /\ last.receiver = "u2" /\ last.status = 201
    /\ Appended /\ last.data.receiver = ADMIN_ID

\* C2: an admin send without a receiver answers 400 and leaves the store as it
\* was; an admin send with message and receiver R is not refused as invalid
\* and appends a Message from ADMIN_ID to R.
C2_AdminReceiver ==
    /\ (IsSend /\ last.caller = ADMIN_ID /\ IdFalsy(last.receiver)) =>
           last.status = 400 /\ Untouched
    /\ (IsSend /\ last.caller = ADMIN_ID /\ ~IdFalsy(last.receiver) /\ ~Falsy(last.message)) =>
           /\ last.status \in {201, 500}
           /\ last.status = 201 =>
                  /\ Appended
                  /\ last.data.sender = ADMIN_ID
                  /\ last.data.receiver = last.receiver

C2_Witness ==
    /\ IsSend /\ last.caller = ADMIN_ID /\ last.receiver = "u1" /\ last.status = 201
    /\ Appended /\ last.data.receiver = "u1" /\ last.data.sender = ADMIN_ID
    /\ Len(store) = 2

\* C3: a send whose message is empty after trimming (absent, "", or only
\* whitespace) answers 400 and appends nothing (a failing store aside), so
\* no stored Message has a text that is empty after trimming.
EmptyAfterTrim(v) == v.t = "undefined" \/ Trim(v.s) = <<>>

C3_BlankMessageRefused ==
    /\ (IsSend /\ EmptyAfterTrim(last.message) /\ last.status # 500) =>
           last.status = 400 /\ Untouched
    /\ \A i \in 1..Len(store) : Trim(store[i].message) # <<>>

\* C4: no stored Message has its sender as its receiver.
C4_NoSelfMessage ==
    \A i \in 1..Len(store) : store[i].sender # store[i].receiver

\* C5: every stored Message has ADMIN_ID as its sender or as its receiver.
C5_AdminIsAParty ==
    \A i \in 1..Len(store) : store[i].sender = ADMIN_ID \/ store[i].receiver = ADMIN_ID

C5_Witness ==
    /\ Len(store) = 2
    /\ store[1].sender = "u1" /\ store[1].receiver = ADMIN_ID
    /\ store[2].sender = ADMIN_ID /\ store[2].receiver = "u2"
    /\ IsSend /\ last.status = 201

(***************************************************************************)
(* The relay alone, driven by sockets that send every event                *)
(***************************************************************************)
RawSetupIds == {ADMIN_ID, "u1"}
RawRooms == {ADMIN_ID, "u1", "chat1"}
RawTargets == RawRooms \cup {SockId("s2")}
RawParties == {NoValue, ADMIN_ID, "u1", SockId("s2")}
RawMessages ==
    {[NoMsg EXCEPT !.sender = a, !.receiver = b, !.message = <<"h">>] :
        a \in RawParties \ {SockId("s2")}, b \in RawParties}

RelayNext ==
    \/ \E c \in Conns : Connect(c)
    \/ \E c \in Conns : Disconnect(c)
    \/ \E c \in Conns, id \in RawSetupIds : RelayOn(c, Event("setup", id, NoMsg))
    \/ \E c \in Conns, id \in RawRooms : RelayOn(c, Event("join chat", id, NoMsg))
    \/ \E c \in Conns, id \in RawTargets : RelayOn(c, Event("typing", id, NoMsg))
    \/ \E c \in Conns, id \in RawTargets : RelayOn(c, Event("stop typing", id, NoMsg))
    \/ \E c \in Conns, m \in RawMessages : RelayOn(c, Event("new message", NoValue, m))

SpecRelay == Init /\ [][RelayNext]_vars

(***************************************************************************)
(* Claims about the relay's broadcast rule                                 *)
(***************************************************************************)
IsNewMessage == rlast.e.ev = "new message"
Receivers == {rlast.emits[i].to : i \in 1..Len(rlast.emits)}

\* C8: on "new message" the relay emits "message received" to the room named
\* message.receiver and to no other room: not to the room named
\* message.sender, not to the emitting socket, and to nobody when sender and
\* receiver are equal.
C8_OnlyReceiverRoom ==
    IsNewMessage =>
        /\ \A i \in 1..Len(rlast.targets) :
               rlast.targets[i] = rlast.e.msg.receiver /\ rlast.targets[i] # rlast.e.msg.sender
        /\ \A i \in 1..Len(rlast.emits) :
               /\ rlast.emits[i].ev = "message received"
               /\ rlast.emits[i].msg = rlast.e.msg
               /\ rlast.emits[i].to # rlast.conn
               /\ rlast.e.msg.receiver \in rooms[rlast.emits[i].to]
        /\ rlast.e.msg.sender = rlast.e.msg.receiver => rlast.emits = <<>>
        /\ rlast.e.msg.sender # rlast.e.msg.receiver =>
               Receivers = Members(online, rooms, rlast.e.msg.receiver) \ {rlast.conn}

\* A user's socket relays a message to admin while a second socket of the same
\* user and an admin socket are bound: only the admin socket receives it.
C8_Witness ==
    /\ IsNewMessage /\ rlast.conn = "s1"
    /\ rlast.e.msg.sender = "u1" /\ rlast.e.msg.receiver = ADMIN_ID
    /\ Joined(rooms, "s1") = {"u1"} /\ Joined(rooms, "s2") = {"u1"}
    /\ Joined(rooms, "s3") = {ADMIN_ID}
    /\ Receivers = {"s3"}

(***************************************************************************)
(* End to end: chat windows, the controller and the relay                  *)
(***************************************************************************)
ChatClients == {"s1", "s3"}
ChatTexts == {<<"h">>}

\* The clients' sockets are connected when the windows come up.
InitChat ==
    /\ InitService /\ InitClients
    /\ online = [c \in Conns |-> c \in ChatClients]
    /\ rooms = [c \in Conns |-> IF c \in ChatClients THEN {SockId(c)} ELSE {}]
    /\ rlast = NoRLast
    /\ dropped = {}

\* The steps of the controller and of the windows on the requests in flight.
HttpNext ==
    \/ \E r \in http : ServePost(r)
    \/ \E r \in http : ServeGet(r)
    \/ \E r \in http : RecvPost(r)
    \/ \E r \in http : RecvGet(r)

\* The clients open, leave and use the chat windows of either route.
ChatNext ==
    \/ \E c \in ChatClients, w \in Windows, u \in Identities : Mount(c, w, u)
    \/ \E c \in ChatClients : Unmount(c)
    \/ \E c \in ChatClients, u \in Users : Select(c, u)
    \/ \E c \in ChatClients, t \in ChatTexts : TypeText(c, t)
    \/ \E c \in ChatClients : HandleSend(c)
    \/ HttpNext
    \/ \E c \in ChatClients : RelayDeliver(c)
    \/ \E c \in ChatClients : SockRecv(c)

SpecChat == InitChat /\ [][ChatNext]_vars

\* The user on s1 in the user window and the admin on s3 in the admin window
\* write to each other, while either client's transport may drop and come
\* back at any time.
ReconnectNext ==
    \/ Mount("s1", "user", "u1")
    \/ \E u \in Users : Mount("s3", "admin", u)
    \/ \E c \in ChatClients : Unmount(c)
    \/ \E c \in ChatClients, t \in ChatTexts : TypeText(c, t)
    \/ \E c \in ChatClients : HandleSend(c)
    \/ HttpNext
    \/ \E c \in ChatClients : RelayDeliver(c)
    \/ \E c \in ChatClients : SockRecv(c)
    \/ \E c \in ChatClients : Disconnect(c)
    \/ \E c \in ChatClients : Connect(c)

SpecReconnect == InitChat /\ [][ReconnectNext]_vars

\* The admin's dashboard: the admin opens the admin window on s3, selects
\* users and writes to them, while user u1 on s1, with no window of this
\* client, sends Messages and emits each as a window of either route does
\* after its POST.
SelectNext ==
    \/ \E u \in Users : Mount("s3", "admin", u)
    \/ Unmount("s3")
    \/ \E u \in Users : Select("s3", u)
    \/ \E t \in ChatTexts : TypeText("s3", t)
    \/ HandleSend("s3")
    \/ HttpNext
    \/ (Posts("s1") < MaxPosts /\ ApiSendMessage("u1", Str(<<"h">>), NoValue))
    \/ \E w \in Windows : EmitOwn("s1", w)
    \/ \E c \in ChatClients : RelayDeliver(c)
    \/ \E c \in ChatClients : SockRecv(c)

SpecSelect == InitChat /\ [][SelectNext]_vars

(***************************************************************************)
(* Claims about what the sender and the receiver see                       *)
(***************************************************************************)
\* How many entries of a displayed list stand for stored Message i.
Count(q, i) == Cardinality({k \in 1..Len(q) : q[k].ref = i})

\* C9: a message sent through a window's send flow is in that window's
\* displayed list exactly once, and the window's socket never gets it back as
\* a "message received" event.
C9_SenderSeesOwnOnce ==
    \A c \in Conns :
        /\ \A i \in cl[c].sent : Count(cl[c].messages, i) = 1
        /\ \A k \in 1..Len(down[c]) :
               down[c][k].ev = "message received" => down[c][k].msg.ref \notin cl[c].posted

\* C10: a mounted window shows each stored Message addressed to its identity
\* at most once, whether it came by the history fetch, by the live event or
\* by both.
C10_ReceiverSeesAtMostOnce ==
    \A c \in Conns :
        cl[c].mounted =>
            \A i \in 1..Len(store) :
                store[i].receiver = ClientOf(c) => Count(cl[c].messages, i) <= 1

(***************************************************************************)
(* The server alone: the controller and the relay, every handler           *)
(***************************************************************************)
ServerConns == {"s1", "s2"}
ServerCallers == {ADMIN_ID, "u1"}
ServerMessages == {Undefined, Str(<<"h">>)}
ServerReceivers == {NoValue, "u1"}
ServerPayload == [NoMsg EXCEPT !.sender = ADMIN_ID, !.receiver = "u1", !.message = <<"h">>]

ServerNext ==
    \/ \E caller \in ServerCallers, message \in ServerMessages, receiver \in ServerReceivers :
           ApiSendMessage(caller, message, receiver)
    \/ \E caller \in ServerCallers, userId \in ServerReceivers : ApiGetMessages(caller, userId)
    \/ \E caller \in ServerCallers : ApiGetChatUsers(caller)
    \/ \E caller \in ServerCallers : ApiGetAllUserChats(caller)
    \/ \E c \in ServerConns : Connect(c)
    \/ \E c \in ServerConns : Disconnect(c)
    \/ \E c \in ServerConns : RelayOn(c, Event("setup", "u1", NoMsg))
    \/ \E c \in ServerConns : RelayOn(c, Event("join chat", "chat1", NoMsg))
    \/ \E c \in ServerConns : RelayOn(c, Event("typing", "chat1", NoMsg))
    \/ \E c \in ServerConns : RelayOn(c, Event("stop typing", "chat1", NoMsg))
    \/ \E c \in ServerConns : RelayOn(c, Event("new message", NoValue, ServerPayload))

SpecServer == Init /\ [][ServerNext]_vars

(***************************************************************************)
(* Claims about the store as a log                                         *)
(***************************************************************************)
IsPrefix(p, q) == Len(p) <= Len(q) /\ SubSeq(q, 1, Len(p)) = p

\* C6: the store is an append-only log. A step changes it only by appending
\* the one document of a sendMessage answered 201; getMessages, getChatUsers,
\* getAllUserChats, a sendMessage answered otherwise and every relay event
\* leave it as it was, and no step changes or removes a stored Message.
C6_AppendOnly ==
    [][/\ IsPrefix(store, store')
       /\ store' # store =>
              /\ last'.op = "sendMessage" /\ last'.status = 201
              /\ last'.before = store
              /\ store' = Append(store, last'.data)
              /\ rvars' = rvars
       /\ (last' # last /\ ~(last'.op = "sendMessage" /\ last'.status = 201)) => store' = store
       /\ rvars' # rvars => store' = store]_vars

\* After two Messages were stored a read was served, a send was refused and
\* the relay handled a broadcast: the store still holds both.
C6_Witness ==
    /\ Len(store) = 2
    /\ last.op = "sendMessage" /\ last.status = 400 /\ last.before = store
    /\ rlast.e.ev = "new message" /\ rlast.emits # <<>>

\* C7: a sendMessage answered 201 has appended exactly one Message, with the
\* caller as sender and the request's text, and answers with that record; its
\* _id is new, so sends of identical content each add their own Message.
C7_OneMessagePerSend ==
    /\ (IsSend /\ last.status = 201) =>
           /\ Appended
           /\ Len(store) = Len(last.before) + 1
           /\ last.data.sender = last.caller
           /\ last.data.message = last.message.s
           /\ \A i \in 1..Len(last.before) : last.before[i]._id # last.data._id
    /\ (IsSend /\ last.status # 201) => Untouched
    /\ \A i, j \in 1..Len(store) : i # j => store[i]._id # store[j]._id

\* The same content was sent twice and is stored twice.
C7_Witness ==
    /\ Len(store) = 2 /\ IsSend /\ last.status = 201
    /\ store[1].sender = store[2].sender /\ store[1].receiver = store[2].receiver
    /\ store[1].message = store[2].message
    /\ store[1]._id # store[2]._id

(***************************************************************************)
(* Claims about the live path and the durable path                         *)
(***************************************************************************)
\* The deliveries the relay's last handler run made to socket d.
GotFromLast(d) == SelectSeq(rlast.emits, LAMBDA x : x.to = d)

\* C11: when the relay handles the "new message" a user window emitted for
\* its stored Message, every other socket that is in the ADMIN_ID room at
\* that moment gets exactly one "message received" whose sender, receiver and
\* message are those of the stored Message.
C11_LivePathReachesAdmin ==
    (/\ rlast.e.ev = "new message"
     /\ rlast.conn \in Conns
     /\ rlast.e.msg.sender # ADMIN_ID
     /\ rlast.e.msg.ref \in 1..Len(store)) =>
        LET m == store[rlast.e.msg.ref]
        IN  \A d \in Members(online, rooms, ADMIN_ID) \ {rlast.conn} :
                /\ Len(GotFromLast(d)) = 1
                /\ GotFromLast(d)[1].ev = "message received"
                /\ GotFromLast(d)[1].msg.sender = m.sender
                /\ GotFromLast(d)[1].msg.receiver = m.receiver
                /\ GotFromLast(d)[1].msg.message = m.message

\* C12: a user message the relay handled while the ADMIN_ID room was empty
\* was delivered to nobody; such a message never reaches an admin socket as a
\* live event, not even after the socket binds; and every list getMessages
\* returns to admin for that user from then on contains it.
C12_DroppedLiveButDurable ==
    /\ [](/\ (/\ rlast.e.ev = "new message" /\ rlast.e.msg.sender # ADMIN_ID
              /\ Members(online, rooms, ADMIN_ID) = {}) =>
                 rlast.emits = <<>> /\ rlast.e.msg.ref \in dropped
          /\ \A d \in Conns :
                 (IsAdminWindow(d) \/ ADMIN_ID \in rooms[d]) =>
                     \A k \in 1..Len(down[d]) :
                         down[d][k].ev = "message received" =>
                             down[d][k].msg.ref \notin dropped)
    /\ [][\A r \in http' \ http :
              (/\ r.kind = "GET" /\ r.phase = "res" /\ r.status = 200
               /\ ClientOf(r.c) = ADMIN_ID /\ r.userId \in Users) =>
                  \A i \in dropped :
                      (i \in 1..Len(store) /\ store[i].sender = r.userId) =>
                          \E k \in 1..Len(r.list) : r.list[k]._id = i]_vars

\* The user's message was dropped while no admin socket was bound; the admin
\* has since opened the admin window on that user, its socket is bound and
\* has been sent nothing, and the answer to its history request holds the
\* message.
C12_Witness ==
    /\ ADMIN_ID \in rooms["s3"] /\ IsAdminWindow("s3") /\ down["s3"] = <<>>
    /\ \E r \in http :
           /\ r.c = "s3" /\ r.kind = "GET" /\ r.phase = "res" /\ r.status = 200
           /\ r.userId \in Users
           /\ \E i \in dropped :
                  /\ store[i].sender = r.userId
                  /\ \E k \in 1..Len(r.list) : r.list[k]._id = i

(***************************************************************************)
(* The controller with the clock running: reads after sends at different   *)
(* and at equal times                                                      *)
(***************************************************************************)
ReadMessages == {Str(<<"h">>)}
ReadReceivers == {NoValue} \cup Identities
ReadUserIds == {NoValue, EmptyId} \cup Identities

ReadNext ==
    \/ Tick
    \/ \E caller \in Identities, message \in ReadMessages, receiver \in ReadReceivers :
           ApiSendMessage(caller, message, receiver)
    \/ \E caller \in Identities, userId \in ReadUserIds : ApiGetMessages(caller, userId)
    \/ \E caller \in Identities : ApiGetChatUsers(caller)
    \/ \E caller \in Identities : ApiGetAllUserChats(caller)

SpecReads == Init /\ [][ReadNext]_vars

IsGet == last.op = "getMessages"

\* C13: getMessages returns the conversation ascending by createdAt, and of
\* two of its Messages the one stored first (the smaller store-assigned id)
\* comes first, also when their createdAt are equal.
C13_InsertionOrder ==
    IsGet =>
        \A i, j \in 1..Len(last.list) :
            i < j => /\ last.list[i].createdAt <= last.list[j].createdAt
                     /\ last.list[i]._id < last.list[j]._id

\* C14: a getMessages call that succeeds returns exactly the stored Messages of one conversation,
\* each once: for admin with a userId U those between ADMIN_ID and U, in every
\* other case those between the caller and ADMIN_ID.
C14_ExactConversation ==
    (IsGet /\ last.status = 200) =>
        LET pairs == IF last.caller = ADMIN_ID /\ last.userId \notin {NoValue, EmptyId}
                     THEN {<<ADMIN_ID, last.userId>>, <<last.userId, ADMIN_ID>>}
                     ELSE {<<last.caller, ADMIN_ID>>, <<ADMIN_ID, last.caller>>}
            wanted == {d \in Range(last.before) : <<d.sender, d.receiver>> \in pairs}
        IN  /\ Range(last.list) = wanted
            /\ Len(last.list) = Cardinality(wanted)

\* Admin read the conversation with u1 and got its one Message, while the
\* store also holds a Message of another conversation.
C14_Witness ==
    /\ IsGet /\ last.caller = ADMIN_ID /\ last.userId = "u1" /\ last.status = 200
    /\ Len(last.list) = 1 /\ Len(last.before) = 2

\* C15: for a non-admin caller the lists getMessages can return are the same
\* for every query.userId, and every Message returned to a non-admin caller
\* has the caller as sender or receiver.
C15_NonAdminReadsOwn ==
    /\ \A c \in Users, userId \in ReadUserIds :
           getMessages(store, c, userId) = getMessages(store, c, NoValue)
    /\ (IsGet /\ last.caller # ADMIN_ID) =>
           \A k \in 1..Len(last.list) :
               last.list[k].sender = last.caller \/ last.list[k].receiver = last.caller

\* u1 asked for u2's conversation while u2 has a stored Message, and got its
\* own Message.
C15_Witness ==
    /\ IsGet /\ last.caller = "u1" /\ last.userId = "u2" /\ last.status = 200
    /\ \E i \in 1..Len(last.before) : last.before[i].sender = "u2"
    /\ Len(last.list) = 1

(***************************************************************************)
(* Claims about the Admin Roster Aggregator                                *)
(***************************************************************************)
IsChatUsers == last.op = "getChatUsers"
IsAllUserChats == last.op = "getAllUserChats"

\* The stored Messages (by position) that have admin as a party, and the other
\* party of each.
AdminTouching(st) == {i \in 1..Len(st) : st[i].sender = ADMIN_ID \/ st[i].receiver = ADMIN_ID}
OtherParty(d) == IF d.sender = ADMIN_ID THEN d.receiver ELSE d.sender

\* C16 (as claimed): getChatUsers answers a non-admin caller 403 and, when
\* it succeeds, answers admin with exactly the non-admin identities that are
\* sender or receiver of a stored Message whose other party is admin.
C16_PartnersSenderOrReceiver ==
    IsChatUsers =>
        IF last.caller # ADMIN_ID THEN last.status = 403
        ELSE last.status = 200 =>
               last.ids = {OtherParty(last.before[i]) : i \in AdminTouching(last.before)}
                              \ {ADMIN_ID}

\* C16 (amended): getChatUsers answers a non-admin caller 403 and, when it
\* succeeds, answers admin with exactly the User documents of the non-admin
\* identities that are sender of a stored Message whose receiver is admin; a
\* user who has only received Messages from admin is not listed, nor is a
\* sender that has no User document.
C16_PartnersAreSenders ==
    IsChatUsers =>
        IF last.caller # ADMIN_ID THEN last.status = 403 /\ last.ids = {}
        ELSE last.status = 200 =>
               /\ last.ids \subseteq Identities
               /\ \A u \in Identities :
                      u \in last.ids <=>
                          /\ u # ADMIN_ID
                          /\ u \in last.users
                          /\ \E i \in 1..Len(last.before) :
                                 last.before[i].sender = u /\ last.before[i].receiver = ADMIN_ID

\* Admin asked for its chat partners while every identity has a User document,
\* u1 has written to admin and u2 has only received a Message from admin: the
\* answer lists u1 alone.
C16_Witness ==
    /\ IsChatUsers /\ last.caller = ADMIN_ID /\ last.status = 200 /\ last.ids = {"u1"}
    /\ last.users = Identities
    /\ \E i \in 1..Len(last.before) :
           last.before[i].sender = ADMIN_ID /\ last.before[i].receiver = "u2"

\* The roster operations after sends of different texts at different and at
\* equal times.
RosterMessages == {Str(<<"h">>), Str(<<"g">>)}

RosterNext ==
    \/ Tick
    \/ \E caller \in Identities, message \in RosterMessages, receiver \in Identities :
           ApiSendMessage(caller, message, receiver)
    \/ \E caller \in Identities : ApiGetChatUsers(caller)
    \/ \E caller \in Identities : ApiGetAllUserChats(caller)

SpecRoster == Init /\ [][RosterNext]_vars

\* C17: a getAllUserChats call that succeeds answers admin with one entry per distinct other party
\* of the Messages that have admin as a party, descending by lastUpdated, and
\* each entry carries the text and the createdAt of the chronologically last
\* of that party's Messages (the greatest createdAt, the later stored one
\* among equals).
C17_SummariesAreLatest ==
    (IsAllUserChats /\ last.caller = ADMIN_ID /\ last.status = 200) =>
        LET st == last.before
            parties == {OtherParty(st[i]) : i \in AdminTouching(st)}
            grp(p) == {i \in AdminTouching(st) : OtherParty(st[i]) = p}
            latest(p) == CHOOSE i \in grp(p) :
                             \A j \in grp(p) :
                                 \/ st[j].createdAt < st[i].createdAt
                                 \/ (st[j].createdAt = st[i].createdAt /\ j <= i)
        IN  /\ Len(last.rows) = Cardinality(parties)
            /\ {last.rows[k]._id : k \in 1..Len(last.rows)} = parties
            /\ \A k, l \in 1..Len(last.rows) :
                   k < l => last.rows[k].lastUpdated >= last.rows[l].lastUpdated
            /\ \A k \in 1..Len(last.rows) :
                   /\ last.rows[k].lastMessage = st[latest(last.rows[k]._id)].message
                   /\ last.rows[k].lastUpdated = st[latest(last.rows[k]._id)].createdAt

\* C18: a getChatUsers or getAllUserChats call by any identity but ADMIN_ID
\* is answered 403 without roster data, and the step changes neither the
\* store nor the relay's state nor anything at the clients.
C18_RosterGate ==
    [][(/\ last' # last
        /\ last'.op \in {"getChatUsers", "getAllUserChats"}
        /\ last'.caller # ADMIN_ID) =>
           /\ last'.status = 403
           /\ last'.ids = {} /\ last'.rows = <<>>
           /\ store' = store /\ clock' = clock
           /\ rvars' = rvars /\ cvars' = cvars]_vars

\* u1 was refused a roster while the store holds a Message of u1 to admin and
\* a socket is bound to a room.
C18_Witness ==
    /\ last.op \in {"getChatUsers", "getAllUserChats"}
    /\ last.caller = "u1" /\ last.status = 403
    /\ \E i \in 1..Len(store) : store[i].sender = "u1" /\ store[i].receiver = ADMIN_ID
    /\ \E c \in Conns : Joined(rooms, c) # {}

(***************************************************************************)
(* Claims about the relay's rooms                                          *)
(***************************************************************************)
\* The identity rooms socket c is in.
IdRooms(rm, c) == rm[c] \cap Identities

\* C19: a "message received" for a Message with receiver R goes only to
\* sockets bound to R.  Stated step by step: a "new message" is delivered
\* only to sockets in the receiver's room; a socket enters a room only by an
\* event of its own that names the room; and a setup leaves the socket in the
\* room of that identity and of no other identity, so that the identity room
\* of a socket is the one of its most recent setup.
C19_RoomIsolation ==
    [][\A d \in Conns :
           /\ (rlast'.e.ev = "new message" /\ rlast' # rlast) =>
                  \A i \in 1..Len(rlast'.emits) :
                      rlast'.emits[i].to = d => rlast'.e.msg.receiver \in rooms[d]
           /\ \A R \in Identities :
                  (R \in rooms'[d] /\ R \notin rooms[d]) =>
                      /\ rlast'.e.ev \in {"setup", "join chat"}
                      /\ rlast'.conn = d /\ rlast'.e.id = R
           /\ (rlast'.e.ev = "setup" /\ rlast'.conn = d /\ rooms' # rooms) =>
                  IdRooms(rooms', d) = {rlast'.e.id}]_vars

\* C20: "join chat" adds the socket to the named room only and changes no
\* socket's membership of an identity's room, so it never makes the socket a
\* receiver of what is relayed to an identity, whatever the roomId.
C20_JoinChatOrthogonal ==
    [][(rlast'.e.ev = "join chat" /\ rooms' # rooms) =>
           /\ rooms' = [rooms EXCEPT ![rlast'.conn] = @ \cup {rlast'.e.id}]
           /\ \A d \in Conns : IdRooms(rooms', d) = IdRooms(rooms, d)
           /\ \A R \in Identities : Members(online', rooms', R) = Members(online, rooms, R)]_vars

(***************************************************************************)
(* Claims about binding, delivery and disconnection at the relay           *)
(***************************************************************************)
\* C21: a socket is in no room but that of its own id, so bound to no
\* identity, when it connects; when the relay handles its
\* setup for identity I the socket joins the room I and nothing else changes
\* in any socket's rooms, and the relay emits one "connected" to that socket
\* and nothing to any other.
C21_SetupBinds ==
    [][/\ (rlast'.e.ev = "connection" /\ rlast' # rlast) =>
              rooms'[rlast'.conn] = {SockId(rlast'.conn)}
       /\ (rlast'.e.ev = "setup" /\ rlast' # rlast) =>
              /\ rooms' = [rooms EXCEPT ![rlast'.conn] = @ \cup {rlast'.e.id}]
              /\ rlast'.emits = <<[to |-> rlast'.conn, ev |-> "connected", msg |-> NoMsg]>>]_vars

\* The relay has handled setup for u1 on s1 while s2 is bound to admin: s1 is
\* in u1's room and got the one acknowledgement.
C21_Witness ==
    /\ rlast.e.ev = "setup" /\ rlast.conn = "s1" /\ rlast.e.id = "u1"
    /\ Joined(rooms, "s1") = {"u1"} /\ Joined(rooms, "s2") = {ADMIN_ID}
    /\ Len(rlast.emits) = 1 /\ rlast.emits[1].to = "s1"

\* C23: a "new message" gives each socket at most one "message received", and
\* only sockets that are in the receiver's room when the relay handles it;
\* no other event makes the relay emit "message received", so a socket that
\* enters the room afterwards gets nothing of it.
C23_AtMostOnceNoQueue ==
    /\ IsNewMessage =>
           \A d \in Conns :
               /\ Len(GotFromLast(d)) <= 1
               /\ Len(GotFromLast(d)) = 1 =>
                      d \in Members(online, rooms, rlast.e.msg.receiver) \ {rlast.conn}
    /\ ~IsNewMessage =>
           \A i \in 1..Len(rlast.emits) : rlast.emits[i].ev # "message received"

\* A user message was relayed while the admin's room was empty, and a socket
\* has now bound to admin: its setup brought it the acknowledgement alone.
C23_Witness ==
    /\ dropped # {}
    /\ rlast.e.ev = "setup" /\ rlast.e.id = ADMIN_ID
    /\ ADMIN_ID \in rooms[rlast.conn]
    /\ Len(rlast.emits) = 1 /\ rlast.emits[1].ev = "connected"

\* C24: a disconnect takes the socket out of all its rooms and changes no
\* other socket's rooms, nor the store, and emits nothing; a socket that is
\* not connected is in no room and is emitted nothing; and a socket that
\* connects again starts in the room of its id alone and is sent nothing of what was relayed
\* meanwhile.
C24_DisconnectLeavesRooms ==
    [][/\ (rlast'.e.ev = "disconnect" /\ rlast' # rlast) =>
              /\ ~online'[rlast'.conn]
              /\ rooms' = [rooms EXCEPT ![rlast'.conn] = {}]
              /\ store' = store
              /\ rlast'.emits = <<>>
       /\ \A d \in Conns :
              ~online'[d] =>
                  /\ rooms'[d] = {}
                  /\ \A i \in 1..Len(rlast'.emits) : rlast'.emits[i].to # d
       /\ (rlast'.e.ev = "connection" /\ rlast' # rlast) =>
              /\ rooms' = [rooms EXCEPT ![rlast'.conn] = {SockId(rlast'.conn)}]
              /\ rlast'.emits = <<>>]_vars

\* A socket has disconnected while another is still in its room and the store
\* holds a Message.
C24_Witness ==
    /\ rlast.e.ev = "disconnect" /\ rooms[rlast.conn] = {} /\ ~online[rlast.conn]
    /\ \E d \in Conns : online[d] /\ Joined(rooms, d) # {}
    /\ store # <<>>

(***************************************************************************)
(* Claims about the chat windows                                           *)
(***************************************************************************)
\* C22: setup is idempotent.  A socket that has issued setup with the same
\* identity more than once is still emitted each relayed "new message" of its
\* room exactly once, and a window whose effect has run again has one
\* listener, so that one "message received" event adds at most one entry to
\* its displayed list.
C22_SetupIdempotent ==
    [][/\ (rlast'.e.ev = "new message" /\ rlast' # rlast) =>
              \A d \in Members(online, rooms, rlast'.e.msg.receiver) \ {rlast'.conn} :
                  Len(SelectSeq(rlast'.emits, LAMBDA x : x.to = d)) = 1
       /\ \A c \in Conns :
              (down[c] # <<>> /\ down'[c] = Tail(down[c])
                   /\ Head(down[c]).ev = "message received") =>
                  Len(cl'[c].messages) <= Len(cl[c].messages) + 1
       /\ \A c \in Conns : Len(cl'[c].lstn) <= 1]_vars

\* The admin's window has run its effect twice, both setups have been handled,
\* and the message the user then sent has been relayed to the admin's socket
\* once and is displayed once.
C22_Witness ==
    /\ cl["s3"].mounted /\ cl["s3"].sel = 1 /\ cl["s3"].user = "u1"
    /\ up["s3"] = <<>> /\ Joined(rooms, "s3") = {ADMIN_ID}
    /\ rlast.e.ev = "new message" /\ rlast.conn = "s1"
    /\ Len(GotFromLast("s3")) = 1
    /\ rlast.e.msg.ref \in cl["s3"].live
    /\ Len(cl["s3"].messages) = 1

\* C27: when a window handles a failed send response, its compose text, its
\* displayed list and its socket's outgoing events are what they were; and a
\* "new message" is emitted only by the handling of a successful response.
C27_FailedSendChangesNothing ==
    [][/\ \A r \in http :
              (r.kind = "POST" /\ r.phase = "res" /\ r.status # 201 /\ r \notin http') =>
                  /\ cl'[r.c].message = cl[r.c].message
                  /\ cl'[r.c].messages = cl[r.c].messages
                  /\ up'[r.c] = up[r.c]
       /\ \A c \in Conns :
              (Len(up'[c]) > Len(up[c]) /\ up'[c][Len(up'[c])].ev = "new message") =>
                  \E r \in http : /\ r.c = c /\ r.kind = "POST" /\ r.phase = "res"
                                  /\ r.status = 201 /\ r \notin http']_vars

\* The admin's window has handled the failed response to its send: the text
\* is still in the compose input, nothing is displayed and nothing was emitted.
C27_Witness ==
    /\ cl["s3"].mounted /\ cl["s3"].nsend = 1 /\ cl["s3"].posted = {}
    /\ \A r \in http : ~(r.c = "s3" /\ r.kind = "POST")
    /\ \A i \in 1..Len(store) : store[i].sender # ADMIN_ID
    /\ cl["s3"].message = <<"h">> /\ cl["s3"].messages = <<>>
    /\ up["s3"] = <<>> /\ Joined(rooms, "s3") = {ADMIN_ID}

(***************************************************************************)
(* Reconnection                                                            *)
(***************************************************************************)
\* The identity a window's effect binds its socket to.
BoundIdentity(c) == IF IsAdminWindow(c) THEN ADMIN_ID ELSE cl[c].user

\* C25: a client whose chat window is mounted and whose socket is connected
\* is bound to its identity as soon as the relay has handled the setups the
\* client has emitted: after a reconnection the client has emitted setup again.
C25_ReboundAfterReconnect ==
    \A c \in Conns :
        (/\ cl[c].mounted /\ online[c]
         /\ \A i \in 1..Len(up[c]) : up[c][i].ev # "setup") =>
            BoundIdentity(c) \in rooms[c]

(***************************************************************************)
(* History responses against live events and selections                    *)
(***************************************************************************)
\* C29: a message a mounted window has appended from a live event stays in
\* its displayed list, whatever history responses the window handles later.
C29_LiveMessageStays ==
    \A c \in Conns :
        cl[c].mounted => \A i \in cl[c].live : Count(cl[c].messages, i) >= 1

\* C28: a mounted window that has handled a failed history response does not
\* show what a window shows after the successful fetch of an empty
\* conversation, that is an empty list and nothing else.
C28_FailedFetchIsVisible ==
    \A c \in Conns :
        (cl[c].mounted /\ cl[c].fetched = "failed") => cl[c].messages # <<>>

\* Whether a displayed entry belongs to the conversation between user u and
\* the admin.
Between(m, u) ==
    \/ (m.sender = u /\ m.receiver = ADMIN_ID)
    \/ (m.sender = ADMIN_ID /\ m.receiver = u)

\* C30: once the admin window's history request for the selected user has
\* been answered and handled, every displayed message is between that user
\* and ADMIN_ID.
C30_DisplayedBelongToSelected ==
    \A c \in Conns :
        (/\ cl[c].mounted /\ IsAdminWindow(c)
         /\ cl[c].fetched = "ok"
         /\ \A r \in http : ~(r.c = c /\ r.kind = "GET" /\ r.inst = cl[c].inst
                               /\ r.sel = cl[c].sel)) =>
            \A i \in 1..Len(cl[c].messages) : Between(cl[c].messages[i], cl[c].user)

(***************************************************************************)
(* Handlers that throw                                                     *)
(***************************************************************************)
\* The relay with clients that also emit setup and "new message" without a
\* payload.
FaultyNext ==
    \/ RelayNext
    \/ \E c \in Conns : RelayOn(c, Event("setup", Missing, NoMsg))
    \/ \E c \in Conns : RelayOn(c, Event("new message", Missing, NoMsg))

SpecFaulty == Init /\ [][FaultyNext]_vars

\* C26: whatever payload a socket's setup or "new message" carries, handling
\* it leaves every other socket connected and in the rooms it was in.
C26_ThrowIsContained ==
    [][(rlast' # rlast /\ rlast'.e.ev \in {"setup", "new message"}) =>
           \A d \in Conns \ {rlast'.conn} :
               online'[d] = online[d] /\ rooms'[d] = rooms[d]]_vars

====
